---- MODULE Spec2Model ----
(***************************************************************************)
(* Model of the aibot news pipeline: the item store (news_items, posts),   *)
(* the three Celery passes parse_news / generate_posts_task /              *)
(* publish_posts_task, the manual generation endpoint and the admission    *)
(* classifier.  Every pass works through its own SQLAlchemy session: what  *)
(* a session has written but not committed is kept in the pass's record    *)
(* and reaches the store (news_items, posts) only at session.commit().     *)
(***************************************************************************)
EXTENDS Integers, Sequences, FiniteSets, TLC

(***************************************************************************)
(* Bounds of the model.                                                    *)
(***************************************************************************)
MaxBatch == 2       \* candidates one adapter call may return
MaxAborts == 1      \* aborted pass executions in one behaviour
MaxRaises == 4      \* executions ended by an exception, where retries are followed

(***************************************************************************)
(* Text.  A string is a sequence of characters; a character is a one-      *)
(* letter TLA+ string, an emoji is a single character written "(e)".       *)
(* A nullable column holds None (<<>>) or <<value>>.                       *)
(***************************************************************************)
None == <<>>
Some(v) == <<v>>

UpperLetters == <<"A","B","C","D","E","F","G","H","I","J","K","L","M",
                  "N","O","P","Q","R","S","T","U","V","W","X","Y","Z">>
LowerLetters == <<"a","b","c","d","e","f","g","h","i","j","k","l","m",
                  "n","o","p","q","r","s","t","u","v","w","x","y","z">>
Digits == {"0","1","2","3","4","5","6","7","8","9"}
Emoji == {"(e)"}
Whitespace == {" "}

IsUpperCh(c) == \E i \in 1..26 : UpperLetters[i] = c
IsLowerCh(c) == \E i \in 1..26 : LowerLetters[i] = c
IsWordCh(c) == IsUpperCh(c) \/ IsLowerCh(c) \/ c \in Digits \/ c = "_"

\* str.lower() on one character
LowerCh(c) ==
    IF IsUpperCh(c) THEN LowerLetters[CHOOSE i \in 1..26 : UpperLetters[i] = c]
    ELSE c

\* str.lower()
lower(s) == [i \in 1..Len(s) |-> LowerCh(s[i])]

\* sub in s
contains(s, sub) ==
    \E i \in 0..(Len(s) - Len(sub)) : SubSeq(s, i + 1, i + Len(sub)) = sub

\* s.endswith(sub)
endswith(s, sub) ==
    Len(sub) <= Len(s) /\ SubSeq(s, Len(s) - Len(sub) + 1, Len(s)) = sub

\* s.count(sub): non-overlapping occurrences, scanned from the left
RECURSIVE count(_, _)
count(s, sub) ==
    IF Len(s) < Len(sub) THEN 0
    ELSE IF SubSeq(s, 1, Len(sub)) = sub
         THEN 1 + count(SubSeq(s, Len(sub) + 1, Len(s)), sub)
         ELSE count(Tail(s), sub)

\* s.isupper(): at least one cased character and no lower-case one
isupper(s) ==
    /\ \E i \in 1..Len(s) : IsUpperCh(s[i])
    /\ \A i \in 1..Len(s) : ~IsLowerCh(s[i])

\* s.strip()
RECURSIVE lstrip(_)
lstrip(s) == IF s # <<>> /\ Head(s) \in Whitespace THEN lstrip(Tail(s)) ELSE s
RECURSIVE rstrip(_)
rstrip(s) ==
    IF s # <<>> /\ s[Len(s)] \in Whitespace THEN rstrip(SubSeq(s, 1, Len(s) - 1))
    ELSE s
strip(s) == rstrip(lstrip(s))

\* s.split(): the whitespace-separated words of s
RECURSIVE split(_, _)
split(s, word) ==
    IF s = <<>> THEN (IF word = <<>> THEN <<>> ELSE <<word>>)
    ELSE IF Head(s) \in Whitespace
         THEN (IF word = <<>> THEN <<>> ELSE <<word>>) \o split(Tail(s), <<>>)
         ELSE split(Tail(s), Append(word, Head(s)))

(***************************************************************************)
(* Admission classifier (utils.py).  news_item is a row of news_items:     *)
(* [url, title, summary, author].                                          *)
(***************************************************************************)
\* The entries of ad_keywords that can be written in the model's alphabet
\* (the Cyrillic entries match no text the model builds).
ad_keywords ==
    { <<"p","r"," ">>,
      <<"p","r",":">>,
      <<"p","r","-">>,
      <<"#","a","d">>,
      <<"#","s","p","o","n","s","o","r","e","d">>,
      <<"#","p","r">>,
      <<"#","p","a","r","t","n","e","r">>,
      <<"#","c","o","m","m","e","r","c","i","a","l">> }

\* (variant: the pattern asks for 4 characters)
emoji_pattern_4(title) ==
    Len(title) >= 4 /\ \A i \in 1..4 : title[i] \in Emoji

\* r'^[emoji ranges]{3,}' matched at the start of the title
emoji_pattern(title) ==
    Len(title) >= 3 /\ \A i \in 1..3 : title[i] \in Emoji

\* r'@\w+'
contact_handle(s) ==
    \E i \in 1..(Len(s) - 1) : s[i] = "@" /\ IsWordCh(s[i + 1])

\* r'\+?\d{10,}'
contact_phone(s) ==
    \E i \in 1..(Len(s) - 9) : \A k \in 0..9 : s[i + k] \in Digits

\* r'\b\w+@\w+\.\w+\b'
contact_email(s) ==
    \E i \in 2..Len(s) : \E j \in (i + 2)..(Len(s) - 1) :
        /\ s[i] = "@" /\ IsWordCh(s[i - 1])
        /\ \A k \in (i + 1)..(j - 1) : IsWordCh(s[k])
        /\ s[j] = "." /\ IsWordCh(s[j + 1])

\* max(word_counts.values()) over the words longer than 3 characters
max_repeats(words) ==
    LET long == {i \in 1..Len(words) : Len(words[i]) > 3}
        occ(i) == Cardinality({j \in long : words[j] = words[i]})
    IN  IF long = {} THEN 0
        ELSE CHOOSE m \in {occ(i) : i \in long} : \A i \in long : occ(i) <= m

\* len(title) < 10
short_title(title) == Len(title) < 10

\* (variant: the test is made on the lower-cased title)
caps_title_lowered(title) ==
    title # <<>> /\ isupper(lower(title)) /\ Len(title) > 5

\* title and title.isupper() and len(title) > 5
caps_title(title) == title # <<>> /\ isupper(title) /\ Len(title) > 5

is_advertisement(news_item) ==
    LET title == lower(news_item.title)
        summary == lower(news_item.summary)
        author == lower(news_item.author)
        full_text == title \o <<" ">> \o summary
        url_count == count(summary, <<"h","t","t","p",":","/","/">>)
                     + count(summary, <<"h","t","t","p","s",":","/","/">>)
                     + count(summary, <<"t",".","m","e","/">>)
        words == split(summary, <<>>)
    IN  \/ \E keyword \in ad_keywords : contains(full_text, keyword)
        \/ emoji_pattern(news_item.title)
        \/ short_title(news_item.title)
        \/ caps_title(news_item.title)
        \/ count(news_item.title, <<"!">>) > 3
        \/ contains(author, <<"b","o","t">>)
        \/ endswith(author, <<"_","b","o","t">>)
        \/ url_count > 2
        \/ contact_handle(full_text)
        \/ contact_phone(full_text)
        \/ contact_email(full_text)
        \/ (Len(words) > 10 /\ max_repeats(words) > 3 /\ Len(words) < 50)

\* BaseParser.is_advertisement (news_parser/base.py), which the adapters
\* apply to every entry before they return it: every test is made on the
\* lower-cased title
parser_is_advertisement(news_item) ==
    LET title == lower(news_item.title)
        summary == lower(news_item.summary)
        author == lower(news_item.author)
        full_text == title \o <<" ">> \o summary
        url_count == count(summary, <<"h","t","t","p",":","/","/">>)
                     + count(summary, <<"h","t","t","p","s",":","/","/">>)
                     + count(summary, <<"t",".","m","e","/">>)
        words == split(summary, <<>>)
    IN  \/ \E keyword \in ad_keywords : contains(full_text, keyword)
        \/ (title # <<>> /\ emoji_pattern(title))
        \/ Len(title) < 10
        \/ (title # <<>> /\ isupper(title) /\ Len(title) > 5)
        \/ count(title, <<"!">>) > 3
        \/ (author # <<>> /\ (\/ contains(author, <<"b","o","t">>)
                              \/ endswith(author, <<"_","b","o","t">>)))
        \/ url_count > 2
        \/ contact_handle(full_text)
        \/ contact_phone(full_text)
        \/ contact_email(full_text)
        \/ (Len(words) > 10 /\ max_repeats(words) > 3 /\ Len(words) < 50)

\* BaseParser.should_skip_item with min_summary_length = 0
should_skip_item(news_item, min_title_length) ==
    \/ parser_is_advertisement(news_item)
    \/ news_item.title = <<>>
    \/ Len(strip(news_item.title)) < min_title_length


(***************************************************************************)
(* What the ingestion adapters may return: candidate records.              *)
(***************************************************************************)
TitleAI == <<"a","i"," ","c","o","m","p","i","l","e","r"," ","o","u","t">>
TitleAd == <<"B","U","Y"," ","N","O","W","!","!","!","!">>
TitleRust == <<"r","u","s","t"," ","t","o","o","l","i","n","g"," ","n","e","w","s">>
SummaryText == <<"s","o","m","e"," ","t","e","x","t">>
AuthorAnn == <<"a","n","n">>

Candidate(url, title) ==
    [url |-> url, title |-> title, summary |-> SummaryText, author |-> AuthorAnn]

Candidates ==
    { Candidate(Some("u1"), TitleAI),     \* admitted by the classifier
      Candidate(Some("u2"), TitleAd),     \* an advertisement
      Candidate(Some("u2"), TitleRust),   \* same URL as the second, no keyword
      Candidate(None, TitleAI) }          \* a message without URL, same title

\* the candidates that is_advertisement classifies as advertisement: the
\* verdicts are computed once, the passes look them up
Advertisements ==
    UNION {IF is_advertisement(c) THEN {c} ELSE {} : c \in Candidates}

\* (variant: the advertisement check is skipped)
filter_by_keywords_only(keywords, news_item) ==
    IF keywords = {} THEN TRUE
    ELSE LET search_text == lower(news_item.title \o <<" ">> \o news_item.summary)
         IN  \E keyword \in keywords : contains(search_text, lower(keyword))

\* keywords: the rows of the keywords table (their word column); the
\* verdict of is_advertisement on a candidate is read from Advertisements
filter_news_by_keywords(keywords, news_item) ==
    IF (IF news_item \in Candidates THEN news_item \in Advertisements
        ELSE is_advertisement(news_item)) THEN FALSE
    ELSE IF keywords = {} THEN TRUE
    ELSE LET search_text == lower(news_item.title \o <<" ">> \o news_item.summary)
         IN  \E keyword \in keywords : contains(search_text, lower(keyword))

(***************************************************************************)
(* Inputs of the classifier and of the interest filter: titles, summaries *)
(* and author names of the entries an adapter may return.                  *)
(***************************************************************************)
\* 9 characters
TitleShort == <<"t","i","n","y"," ","n","e","w","s">>
\* 10 characters
TitleTen == <<"t","e","n"," ","c","h","a","r","s","!">>
\* 12 characters, 7 after strip()
TitlePadded == <<" "," ","a","i"," ","n","e","w","s"," "," "," ">>
\* entirely upper-case
TitleCaps == <<"C","O","M","P","I","L","E","R"," ","N","E","W","S">>
\* entirely upper-case, 4 characters
TitleCapsShort == <<"N","E","W","S">>
\* mixed case
TitleMixed == <<"C","o","m","p","i","l","e","r"," ","N","e","w","s">>
\* mixed case, with the keyword in upper case
TitleMixedAI == <<"N","e","w"," ","A","I"," ","C","o","m","p","i","l","e","r">>
\* 3 leading emoji
TitleEmoji3 == <<"(e)","(e)","(e)"," ","c","o","m","p","i","l","e","r"," ","n","e","w","s">>
\* 4 leading emoji
TitleEmoji4 == <<"(e)","(e)","(e)","(e)"," ","c","o","m","p","i","l","e","r"," ","n","e","w","s">>
\* 2 leading emoji
TitleEmoji2 == <<"(e)","(e)"," ","c","o","m","p","i","l","e","r"," ","n","e","w","s">>
\* 3 emoji, not leading
TitleEmojiInside == <<"c","o","m","p","i","l","e","r"," ","(e)","(e)","(e)"," ","n","e","w","s">>
SummaryRust == <<"r","u","s","t"," ","i","s"," ","h","e","r","e">>
AuthorBot == <<"n","e","w","s","_","b","o","t">>

ClassifierTitles ==
    { TitleAI, TitleAd, TitleRust, TitleShort, TitleTen, TitlePadded, TitleCaps,
      TitleCapsShort, TitleMixed, TitleMixedAI, TitleEmoji3,
      TitleEmoji4, TitleEmoji2, TitleEmojiInside }

ClassifierText(title, summary, author) ==
    [url |-> Some("u1"), title |-> title, summary |-> summary, author |-> author]

\* every title with the plain summary and author, and the admitted title
\* with another summary and with the author name of a bot
ClassifierInputs ==
    {ClassifierText(title, SummaryText, AuthorAnn) : title \in ClassifierTitles}
        \cup {ClassifierText(TitleAI, SummaryRust, AuthorAnn),
              ClassifierText(TitleShort, SummaryRust, AuthorBot),
              ClassifierText(TitleMixed, SummaryText, AuthorBot)}

\* the keywords table in the runs over ClassifierInputs
ClassifierKeywordTables ==
    { {}, {<<"A","I">>}, {<<"a","i">>, <<"R","u","s","t">>},
      {<<"T","E","X","T">>}, {<<"z","i","g">>, <<"g","o","l","a","n","g">>} }

\* the keywords table, as the management interface may have left it
KeywordTables == { {}, {<<"A","I">>} }

(***************************************************************************)
(* Configuration rows read by the passes.                                  *)
(***************************************************************************)
max_retries == 3

\* the sources table: [type, name, url, enabled]
sources ==
    << [type |-> "site", name |-> <<"H","a","b","r">>,
        url |-> <<"h","a","b","r",".","c","o","m">>, enabled |-> TRUE],
       [type |-> "tg", name |-> <<"c","h","a","n">>,
        url |-> <<"c","h","a","n">>, enabled |-> TRUE],
       [type |-> "site", name |-> <<"B","l","o","g">>,
        url |-> <<"b","l","o","g",".","i","o">>, enabled |-> FALSE] >>

Workers == {1, 2}

\* Sequences over S of length 0..n
RECURSIVE SeqsUpTo(_, _)
SeqsUpTo(S, n) ==
    IF n = 0 THEN {<<>>}
    ELSE LET shorter == SeqsUpTo(S, n - 1)
         IN  shorter \cup {Append(s, x) : s \in {q \in shorter : Len(q) = n - 1}, x \in S}

\* What one adapter call does: it raises, or returns a list of candidates.
\* The site parser may also return an entry without title.  Unread stands
\* for an entry of the list whose content is drawn when save_news_items
\* reaches it.
Untitled == Candidate(Some("u4"), <<>>)
Unread == Candidate(Some("?"), <<"?">>)
Returned(items) == [raised |-> FALSE, items |-> items]
Raised == [raised |-> TRUE, items |-> <<>>]
AnyResults == {Returned([i \in 1..n |-> Unread]) : n \in 0..MaxBatch} \cup {Raised}
TgResults == {Returned(b) : b \in SeqsUpTo(Candidates, MaxBatch)} \cup {Raised}
SiteResults ==
    TgResults \cup {Returned(<<Untitled>> \o b) : b \in SeqsUpTo(Candidates, 1)}
AdapterResults(source) == IF source.type = "site" THEN SiteResults ELSE TgResults

VARIABLES
    news_items,     \* table news_items: sequence of rows, id = position
    posts,          \* table posts: sequence of rows, id = position
    keywords,       \* table keywords: the set of words
    source_table,   \* table sources: sequence of rows, id = position
    feed,           \* per source: {} (the adapter returns anything) or {its result}
    parse,          \* per worker: the running parse_news task and its session
    gen,            \* the running generate_posts_task and its session
    pub,            \* the running publish_posts_task and its session
    man,            \* the running generate_post_manual request and its session
    parse_queue,    \* queued retries of parse_news, per retry count
    gen_queue,      \* queued generate_posts_task messages, per retry count
    pub_queue,      \* queued publish_posts_task messages, per retry count
    result,         \* the task that returned last and what it returned
    hist            \* history: calls per posts row, finished ingest, aborted runs

vars == <<news_items, posts, keywords, source_table, feed, parse, gen, pub,
          man, parse_queue, gen_queue, pub_queue, result, hist>>

\* the tables the passes only read
tables == <<keywords, source_table>>

store == <<news_items, posts>>

\* (variant: every value counts as true)
truthy_always(text) == TRUE

\* Python truth of a nullable text column, and of a nullable URL
truthy(text) == text # None /\ text[1] # <<>>
truthy_url(url) == url # None /\ url[1] # ""

(***************************************************************************)
(* Deduplication gate and ingest path (utils.py).                          *)
(***************************************************************************)
\* What the queries of worker w's session see: the committed rows and the
\* rows the session itself has flushed.
\* (variant: the session does not see its own flushed rows)
committed_items(w) == news_items

visible_items(w) == news_items \o parse[w].new_items

\* (variant: only the URL is compared)
check_duplicate_url(items, url, title) ==
    truthy_url(url) /\ \E i \in 1..Len(items) : items[i].url = url

check_duplicate(items, url, title) ==
    \/ truthy_url(url) /\ \E i \in 1..Len(items) : items[i].url = url
    \/ title # <<>> /\ \E i \in 1..Len(items) : items[i].title = title

\* nullable=False columns of NewsItem that item_data can leave unset
violates_not_null(item_data) == item_data.url = None

IdleParse ==
    [pc |-> "idle", sources |-> <<>>, total_saved |-> 0, batch |-> <<>>,
     new_items |-> <<>>, new_posts |-> <<>>, saved_count |-> 0,
     failed_flush |-> FALSE, created |-> 0, retries |-> 0]

\* (created is history: the number of rows the task's commits have stored)

\* Post(news_id=...): the column defaults of a new posts row
\* history kept per posts row: how often the generate pass ran the classifier
\* on it and called the generation adapter for it, and how often the
\* publishing adapter returned success for it
NoCalls == [filter |-> 0, generate |-> 0, published |-> 0]

NewPost(news_id) ==
    [news_id |-> news_id, generated_text |-> None,
     published_at |-> Some("created"), status |-> "new"]

\* The Source objects of the task's session.  The session is made with
\* expire_on_commit left True: its objects hold the columns they were loaded
\* with until a commit or rollback of the session expires them, and are
\* loaded again from the table when next read.  invoked is history: the
\* sources whose adapter the task has called.
LoadedSources == [loaded |-> source_table, expired |-> FALSE, invoked |-> {}]

\* Where the table of sources never changes a reload returns what the object
\* held, and the state need not keep the objects: `kept` says whether it does.
with_objects(p, kept) ==
    IF kept THEN [pc |-> p.pc, sources |-> p.sources,
                  total_saved |-> p.total_saved, batch |-> p.batch,
                  new_items |-> p.new_items, new_posts |-> p.new_posts,
                  saved_count |-> p.saved_count,
                  failed_flush |-> p.failed_flush, created |-> p.created,
                  retries |-> p.retries, objects |-> LoadedSources]
    ELSE p

\* session.commit() and session.rollback() expire every object of the session
expire_all(p) ==
    IF "objects" \in DOMAIN p THEN [p EXCEPT !.objects.expired = TRUE] ELSE p

\* reading a column of Source s in the task p
source_object(p, s) ==
    IF "objects" \in DOMAIN p /\ ~p.objects.expired
    THEN p.objects.loaded[s]
    ELSE source_table[s]

\* the adapter of source s is called
invoke(p, s) ==
    IF "objects" \in DOMAIN p THEN [p EXCEPT !.objects.invoked = @ \cup {s}]
    ELSE p

\* parse_news up to the query of the enabled sources, in the execution
\* whose request.retries is r
ParseNewsBeginOf(w, r, kept) ==
    LET enabled == SelectSeq([i \in 1..Len(source_table) |-> i],
                             LAMBDA i : source_table[i].enabled)
    IN  IF enabled = <<>>
        THEN /\ result' = [task |-> "parse_news", saved |-> 0]
             /\ UNCHANGED parse
        ELSE /\ parse' = [parse EXCEPT ![w] =
                     with_objects(
                         [IdleParse EXCEPT !.pc = "sources", !.sources = enabled,
                                           !.retries = r], kept)]
             /\ UNCHANGED result

ParseNewsBegin(w, r) == ParseNewsBeginOf(w, r, FALSE)

\* the beat schedule sends parse_news and a worker takes it
ParseNewsStartOf(w, kept) ==
    /\ parse[w].pc = "idle"
    /\ ParseNewsBeginOf(w, 0, kept)
    /\ UNCHANGED <<news_items, posts, tables, feed, parse_queue, gen, pub, man,
                   gen_queue, pub_queue, hist>>

ParseNewsStart(w) == ParseNewsStartOf(w, FALSE)

\* The parser parse_site_source picks for a source
has_parser(source) ==
    \/ contains(lower(source.name), <<"h","a","b","r">>)
    \/ contains(lower(source.url), <<"h","a","b","r">>)

\* (variant: the exception ends the task)
SourceFailureEndsPass(p) == IdleParse

\* The session is rolled back and the source contributes 0
\* (except branch of parse_site_source / parse_telegram_source).
SourceFailed(p) ==
    expire_all([p EXCEPT !.pc = "sources", !.sources = Tail(@), !.batch = <<>>,
                         !.new_items = <<>>, !.new_posts = <<>>,
                         !.saved_count = 0, !.failed_flush = FALSE])

\* One iteration of the loop over the sources, up to the call of
\* save_news_items: parse_site_source / parse_telegram_source call the adapter.
ParseSource(w) ==
    /\ parse[w].pc = "sources"
    /\ parse[w].sources # <<>>
    /\ LET s == Head(parse[w].sources)
           source == source_object(parse[w], s)
           skip == [parse[w] EXCEPT !.sources = Tail(@)]
           called == invoke(parse[w], s)
       IN  IF ~source.enabled
           THEN parse' = [parse EXCEPT ![w] = skip]
           ELSE IF source.type = "site" /\ ~has_parser(source)
           THEN parse' = [parse EXCEPT ![w] = skip]
           ELSE \E r \in (IF feed[s] = {} THEN AnyResults ELSE feed[s]) :
                  LET valid_news_items ==
                          IF source.type = "site"
                          THEN SelectSeq(r.items, LAMBDA item : item.title # <<>>)
                          ELSE r.items
                  IN  IF r.raised
                      THEN parse' = [parse EXCEPT ![w] = SourceFailed(called)]
                      ELSE IF r.items = <<>> \/ valid_news_items = <<>>
                      THEN parse' = [parse EXCEPT ![w] =
                               [called EXCEPT !.sources = Tail(@)]]
                      ELSE parse' = [parse EXCEPT ![w] =
                               [called EXCEPT !.pc = "save",
                                              !.batch = valid_news_items]]
    /\ UNCHANGED <<news_items, posts, tables, feed, parse_queue, gen, pub, man,
                   gen_queue, pub_queue, result, hist>>

\* save_news_items: one iteration of the loop over news_items
SaveNewsItem(w) ==
    /\ parse[w].pc = "save"
    /\ parse[w].batch # <<>>
    /\ \E item_data \in (IF Head(parse[w].batch) = Unread
                          THEN Candidates ELSE {Head(parse[w].batch)}) :
         LET p == [parse[w] EXCEPT !.batch = Tail(@)]
         IN  IF parse[w].failed_flush
             THEN \* the query of check_duplicate raises on the failed session
                  parse' = [parse EXCEPT ![w] = SourceFailed(parse[w])]
             ELSE IF check_duplicate(visible_items(w), item_data.url, item_data.title)
             THEN parse' = [parse EXCEPT ![w] = p]
             ELSE IF violates_not_null(item_data)
             THEN \* session.flush() raises and has rolled the transaction
                  \* back; the except branch continues with the next entry
                  parse' = [parse EXCEPT ![w] =
                      [p EXCEPT !.failed_flush = TRUE,
                                !.new_items = <<>>, !.new_posts = <<>>]]
             ELSE parse' = [parse EXCEPT ![w] =
                      [p EXCEPT !.new_items = Append(@, item_data),
                                !.new_posts = Append(@,
                                    NewPost(Len(parse[w].new_items) + 1)),
                                !.saved_count = @ + 1]]
    /\ UNCHANGED <<news_items, posts, tables, feed, parse_queue, gen, pub, man,
                   gen_queue, pub_queue, result, hist>>

\* save_news_items: the commit after the loop, and the return to parse_news
SaveCommit(w) ==
    /\ parse[w].pc = "save"
    /\ parse[w].batch = <<>>
    /\ IF parse[w].failed_flush
       THEN \* session.commit() raises, rollback, the source contributes 0
            /\ parse' = [parse EXCEPT ![w] = SourceFailed(parse[w])]
            /\ UNCHANGED <<news_items, posts, hist>>
       ELSE /\ news_items' = news_items \o parse[w].new_items
            /\ posts' = posts \o [i \in 1..Len(parse[w].new_posts) |->
                   [parse[w].new_posts[i] EXCEPT !.news_id = Len(news_items) + @]]
            /\ hist' = [hist EXCEPT !.calls = @ \o
                   [i \in 1..Len(parse[w].new_posts) |-> NoCalls]]
            /\ parse' = [parse EXCEPT ![w] =
                   expire_all(
                       [@ EXCEPT !.pc = "sources", !.sources = Tail(@),
                                 !.total_saved = @ + parse[w].saved_count,
                                 !.new_items = <<>>, !.new_posts = <<>>,
                                 !.saved_count = 0,
                                 !.created = @ + Len(parse[w].new_items)])]
    /\ UNCHANGED <<tables, feed, parse_queue, gen, pub, man, gen_queue,
                   pub_queue, result>>

\* (variant: the next task is sent whatever the count)
chain_always(queue, n) == [queue EXCEPT ![0] = @ + 1]

\* "if n > 0: next_task.delay()": a new message, not yet retried
chain(queue, n) ==
    IF n > 0 THEN [queue EXCEPT ![0] = @ + 1] ELSE queue

\* parse_news after the loop: the result and generate_posts_task.delay()
ParseNewsFinish(w) ==
    /\ parse[w].pc = "sources"
    /\ parse[w].sources = <<>>
    /\ result' = [task |-> "parse_news", saved |-> parse[w].total_saved]
    /\ hist' = [hist EXCEPT !.parse_runs = 1]
    /\ gen_queue' = chain(gen_queue, parse[w].total_saved)
    /\ parse' = [parse EXCEPT ![w] = IdleParse]
    /\ UNCHANGED <<news_items, posts, tables, feed, parse_queue, gen, pub,
                   man, pub_queue>>

(***************************************************************************)
(* Generation adapter (ai/generator.py).                                   *)
(***************************************************************************)
ProviderText == <<"p","o","s","t">>

\* what make_request returns: None, an empty completion or a text
ProviderResults == {None, Some(<<>>), Some(ProviderText)}

RECURSIVE join(_)
join(parts) ==
    IF parts = <<>> THEN <<>>
    ELSE IF Len(parts) = 1 THEN parts[1]
    ELSE parts[1] \o <<"\n">> \o join(Tail(parts))

generate_fallback_post(news) ==
    LET title == IF news.title # <<>> THEN news.title ELSE <<"n","e","w","s">>
        summary == IF Len(news.summary) > 200
                   THEN SubSeq(news.summary, 1, 200) \o <<".",".",".">>
                   ELSE news.summary
        link == IF news.url = None THEN "None" ELSE news.url[1]
        post_parts == << <<"(e)", " ">> \o title,
                         <<>>,
                         summary,
                         <<>>,
                         <<"(e)", " ", "r","e","a","d",":"," ", link>>,
                         <<>>,
                         <<"#","n","e","w","s">> >>
    IN  join(SelectSeq(post_parts, LAMBDA part : strip(part) # <<>>))

\* (variant: there is no fallback)
generate_posts_no_fallback(news, provider_result) ==
    IF truthy(provider_result) THEN provider_result ELSE None

\* provider_result: what make_request returned for this call
generate_posts(news, provider_result) ==
    IF truthy(provider_result) THEN provider_result
    ELSE LET post_text == generate_fallback_post(news)
         IN  IF post_text # <<>> THEN Some(post_text) ELSE None

(***************************************************************************)
(* Sessions of the generate and publish passes.                            *)
(***************************************************************************)
\* dirty: posts id -> the columns the session has set and not yet committed
NoDirty == <<>>

\* (variant: the commit is lost)
commit_nothing(rows, dirty) == rows

\* session.commit(): the UPDATE of every dirty row
commit(rows, dirty) ==
    [i \in 1..Len(rows) |->
        IF i \in DOMAIN dirty
        THEN [f \in DOMAIN rows[i] |->
                 IF f \in DOMAIN dirty[i] THEN dirty[i][f] ELSE rows[i][f]]
        ELSE rows[i]]

set_columns(dirty, post, columns) ==
    [p \in DOMAIN dirty \cup {post} |->
        IF p = post
        THEN (IF post \in DOMAIN dirty
              THEN [f \in DOMAIN dirty[post] \cup DOMAIN columns |->
                       IF f \in DOMAIN columns THEN columns[f] ELSE dirty[post][f]]
              ELSE columns)
        ELSE dirty[p]]

\* the ids of the posts rows with the given status, in every order the
\* query (which has no ORDER BY) may return them
RECURSIVE Orders(_)
Orders(S) ==
    IF S = {} THEN {<<>>}
    ELSE UNION {{<<x>> \o q : q \in Orders(S \ {x})} : x \in S}

\* (variant: the status filter of the query is lost)
posts_without_filter(status) == 1..Len(posts)

posts_with_status(status) == {i \in 1..Len(posts) : posts[i].status = status}

\* (done and provider are history: the outcome of every iteration so far, and
\* what make_request did in the last iteration, NoRequest if it was not called)
NoRequest == [raised |-> FALSE, text |-> Some(<<"-">>), called |-> FALSE]

IdleGen ==
    [pc |-> "idle", posts |-> <<>>, i |-> 1, dirty |-> NoDirty,
     generated_count |-> 0, retries |-> 0, done |-> <<>>,
     provider |-> NoRequest]

\* (requests is history: the calls of the pass that went to the network)
IdlePub ==
    [pc |-> "idle", posts |-> <<>>, i |-> 1, dirty |-> NoDirty,
     published |-> 0, failed |-> 0, retries |-> 0, requests |-> 0]

NoQueue == [r \in 0..max_retries |-> 0]

(***************************************************************************)
(* generate_posts_task (celery/tasks.py).                                  *)
(***************************************************************************)
\* The task is taken from the queue and runs up to the loop over the posts.
GenerateStart ==
    /\ gen.pc = "idle"
    /\ \E r \in 0..max_retries :
         /\ gen_queue[r] > 0
         /\ gen_queue' = [gen_queue EXCEPT ![r] = @ - 1]
         /\ IF posts_with_status("new") = {}
            THEN /\ result' = [task |-> "generate_posts", generated |-> 0]
                 /\ UNCHANGED gen
            ELSE /\ \E selected \in Orders(posts_with_status("new")) :
                        gen' = [IdleGen EXCEPT !.pc = "loop", !.posts = selected,
                                               !.retries = r]
                 /\ UNCHANGED result
    /\ UNCHANGED <<news_items, posts, tables, feed, parse_queue, parse, pub, man,
                   pub_queue, hist>>

\* what the call of generate_posts does in one iteration: make_request
\* returns a result, or an exception (the soft time limit) ends the call
GenerateOutcomes ==
    {[raised |-> FALSE, text |-> t, called |-> TRUE] : t \in ProviderResults}
        \cup {[raised |-> TRUE, text |-> None, called |-> TRUE]}

\* One iteration of the loop over the selected posts.
GenerateUnit ==
    /\ gen.pc = "loop"
    /\ gen.i <= Len(gen.posts)
    /\ LET post == gen.posts[gen.i]
           news_id == posts[post].news_id
           step(outcome) == [gen EXCEPT !.i = @ + 1, !.done = Append(@, outcome),
                                        !.provider = NoRequest]
       IN  IF news_id \notin 1..Len(news_items)
           THEN /\ gen' = step("missing")
                /\ UNCHANGED <<posts, hist>>
           ELSE IF ~filter_news_by_keywords(keywords, news_items[news_id])
           THEN /\ gen' = [step("rejected") EXCEPT
                              !.dirty = set_columns(@, post, [status |-> "failed"])]
                /\ hist' = [hist EXCEPT !.calls[post].filter = @ + 1]
                /\ UNCHANGED posts
           ELSE
             /\ hist' = [hist EXCEPT !.calls[post].filter = @ + 1,
                                     !.calls[post].generate = @ + 1]
             /\ \E o \in GenerateOutcomes :
                  LET post_text == generate_posts(news_items[news_id], o.text)
                  IN  IF o.raised
                      THEN \* except branch: FAILED, committed at once
                           /\ posts' = commit(posts,
                                  set_columns(gen.dirty, post, [status |-> "failed"]))
                           /\ gen' = [step("raised") EXCEPT !.dirty = NoDirty,
                                                             !.provider = o]
                      ELSE IF ~truthy(post_text)
                      THEN /\ gen' = [step("no_text") EXCEPT
                                  !.dirty = set_columns(@, post, [status |-> "failed"]),
                                  !.provider = o]
                           /\ UNCHANGED posts
                      ELSE /\ posts' = commit(posts,
                                  set_columns(gen.dirty, post,
                                      [generated_text |-> post_text,
                                       status |-> "generated"]))
                           /\ gen' = [step("generated") EXCEPT
                                  !.dirty = NoDirty,
                                  !.generated_count = @ + 1,
                                  !.provider = o]
    /\ UNCHANGED <<news_items, tables, feed, parse_queue, parse, pub, man,
                   gen_queue, pub_queue, result>>

\* After the loop: the final commit, publish_posts_task.delay(), the result.
GenerateFinish ==
    /\ gen.pc = "loop"
    /\ gen.i > Len(gen.posts)
    /\ posts' = commit(posts, gen.dirty)
    /\ pub_queue' = chain(pub_queue, gen.generated_count)
    /\ result' = [task |-> "generate_posts", generated |-> gen.generated_count]
    /\ gen' = IdleGen
    /\ UNCHANGED <<news_items, tables, feed, parse_queue, parse, pub, man,
                   gen_queue, hist>>

\* The execution ends between two units: the worker process is killed, as by
\* task_time_limit ("crash": the task fails and is not sent again), or an
\* exception reaches the outer handler, which rolls back and calls self.retry.
AbortKinds == {"crash", "exception"}

\* (variant: the exception is not followed by a retry)
retry_never(queue, retries, kind) == queue

\* self.retry(exc=e, countdown=60): the task is sent again with
\* request.retries + 1, unless request.retries has reached max_retries
retry(queue, retries, kind) ==
    IF kind = "exception" /\ retries < max_retries
    THEN [queue EXCEPT ![retries + 1] = @ + 1]
    ELSE queue

\* self.retry raises the exception itself once request.retries has reached
\* max_retries: the task's state in the result backend is then FAILURE
failure(last, task, retries, kind) ==
    IF kind = "exception" /\ retries >= max_retries
    THEN [task |-> task, status |-> "failure"]
    ELSE last

\* at most limit executions are ended in a behaviour, each in one of kinds
GenerateAbortWithin(limit, kinds) ==
    /\ gen.pc = "loop"
    /\ hist.aborts < limit
    /\ \E kind \in kinds :
         /\ gen_queue' = retry(gen_queue, gen.retries, kind)
         /\ result' = failure(result, "generate_posts", gen.retries, kind)
    /\ gen' = IdleGen
    /\ hist' = [hist EXCEPT !.aborts = @ + 1]
    /\ UNCHANGED <<news_items, posts, tables, feed, parse_queue, parse, pub,
                   man, pub_queue>>

GenerateAbort == GenerateAbortWithin(MaxAborts, AbortKinds)

\* an exception reaches the outer handler of generate_posts_task
GenerateRaise == GenerateAbortWithin(MaxRaises, {"exception"})

(***************************************************************************)
(* publish_posts_task (celery/tasks.py).                                   *)
(***************************************************************************)
\* The task is taken from the queue and runs up to the loop; pub.posts keeps
\* the rows as the query loaded them (id and generated_text).
PublishStart ==
    /\ pub.pc = "idle"
    /\ \E r \in 0..max_retries :
         /\ pub_queue[r] > 0
         /\ pub_queue' = [pub_queue EXCEPT ![r] = @ - 1]
         /\ IF posts_with_status("generated") = {}
            THEN /\ result' = [task |-> "publish_posts", published |-> 0,
                                  failed |-> 0]
                 /\ UNCHANGED pub
            ELSE /\ \E selected \in Orders(posts_with_status("generated")) :
                        pub' = [IdlePub EXCEPT
                                  !.pc = "loop", !.retries = r,
                                  !.posts = [k \in 1..Len(selected) |->
                                      [id |-> selected[k],
                                       generated_text |->
                                           posts[selected[k]].generated_text]]]
                 /\ UNCHANGED result
    /\ UNCHANGED <<news_items, posts, tables, feed, parse_queue, parse, gen, man,
                   gen_queue, hist>>

\* what a call of publish_post that reaches the network does: it returns True
\* or False, or an exception (the soft time limit) ends the call
PublishOutcomes == {"success", "failure", "raised"}

\* what _create_telegram_client returns as client_type, "none" without
\* TELEGRAM_BOT_TOKEN and without TELEGRAM_API_ID / TELEGRAM_API_HASH
ClientTypes == {"bot_api", "telethon"}

\* settings.TELEGRAM_CHANNEL_USERNAME when it is set
ChannelName == <<"c","h","a","n">>

\* (variant: the request is sent whatever the settings are)
publish_post_unchecked(client_type, target_channel) ==
    {[success |-> success, requests |-> 1] : success \in PublishOutcomes}

\* publish_post: without a client, or without a channel, it returns False
\* before any request is made
publish_post(client_type, target_channel) ==
    IF client_type \notin ClientTypes \/ ~truthy(target_channel)
    THEN {[success |-> "failure", requests |-> 0]}
    ELSE {[success |-> success, requests |-> 1] : success \in PublishOutcomes}

\* (variant: the unit is PUBLISHED whatever the adapter did)
always_published(success) == "published"

\* the status the loop sets after publish_post returned or raised
publish_status(success) ==
    IF success = "success" THEN "published" ELSE "failed"

\* One iteration of the loop over the selected posts, under the given
\* settings of the publisher; nothing is committed.
PublishUnitOf(client_type, target_channel) ==
    /\ pub.pc = "loop"
    /\ pub.i <= Len(pub.posts)
    /\ LET post == pub.posts[pub.i]
           next == [pub EXCEPT !.i = @ + 1]
       IN  IF ~truthy(post.generated_text)
           THEN /\ pub' = next
                /\ UNCHANGED hist
           ELSE \E o \in publish_post(client_type, target_channel) :
                  IF o.success = "success"
                  THEN /\ pub' = [next EXCEPT
                              !.dirty = set_columns(@, post.id,
                                  [status |-> publish_status(o.success),
                                   published_at |-> Some("now")]),
                              !.published = @ + 1,
                              !.requests = @ + o.requests]
                       /\ hist' = [hist EXCEPT !.calls[post.id].published = @ + 1]
                  ELSE /\ pub' = [next EXCEPT
                              !.dirty = set_columns(@, post.id,
                                  [status |-> publish_status(o.success)]),
                              !.failed = @ + 1,
                              !.requests = @ + o.requests]
                       /\ UNCHANGED hist
    /\ UNCHANGED <<news_items, posts, tables, feed, parse_queue, parse, gen, man,
                   gen_queue, pub_queue, result>>

\* The iteration when a client and the channel are configured.
PublishUnit ==
    \E client_type \in ClientTypes : PublishUnitOf(client_type, Some(ChannelName))

\* The iteration when the client, the channel or both are not configured.
PublishUnconfigured ==
    \E client_type \in ClientTypes \cup {"none"} :
        \E target_channel \in {None, Some(ChannelName)} :
            /\ client_type = "none" \/ target_channel = None
            /\ PublishUnitOf(client_type, target_channel)

\* After the loop: the only commit of the pass, and the result.
PublishFinish ==
    /\ pub.pc = "loop"
    /\ pub.i > Len(pub.posts)
    /\ posts' = commit(posts, pub.dirty)
    /\ result' = [task |-> "publish_posts", published |-> pub.published,
                  failed |-> pub.failed]
    /\ pub' = IdlePub
    /\ UNCHANGED <<news_items, tables, feed, parse_queue, parse, gen, man,
                   gen_queue, pub_queue, hist>>

PublishAbortWithin(limit, kinds) ==
    /\ pub.pc = "loop"
    /\ hist.aborts < limit
    /\ \E kind \in kinds :
         /\ pub_queue' = retry(pub_queue, pub.retries, kind)
         /\ result' = failure(result, "publish_posts", pub.retries, kind)
    /\ pub' = IdlePub
    /\ hist' = [hist EXCEPT !.aborts = @ + 1]
    /\ UNCHANGED <<news_items, posts, tables, feed, parse_queue, parse, gen,
                   man, gen_queue>>

PublishAbort == PublishAbortWithin(MaxAborts, AbortKinds)

\* an exception reaches the outer handler of publish_posts_task
PublishRaise == PublishAbortWithin(MaxRaises, {"exception"})

(***************************************************************************)
(* Retries of parse_news (celery/tasks.py).                                *)
(***************************************************************************)
\* a worker takes a retry of parse_news from the queue
ParseNewsRetry(w) ==
    /\ parse[w].pc = "idle"
    /\ \E r \in 1..max_retries :
         /\ parse_queue[r] > 0
         /\ parse_queue' = [parse_queue EXCEPT ![r] = @ - 1]
         /\ ParseNewsBegin(w, r)
    /\ UNCHANGED <<news_items, posts, tables, feed, gen, pub, man,
                   gen_queue, pub_queue, hist>>

\* an exception outside the handlers of the sources (a query or rollback on
\* a lost connection) reaches the outer handler of parse_news
ParseNewsRaise(w) ==
    /\ parse[w].pc = "sources"
    /\ hist.aborts < MaxRaises
    /\ parse_queue' = retry(parse_queue, parse[w].retries, "exception")
    /\ result' = failure(result, "parse_news", parse[w].retries, "exception")
    /\ parse' = [parse EXCEPT ![w] = IdleParse]
    /\ hist' = [hist EXCEPT !.aborts = @ + 1]
    /\ UNCHANGED <<news_items, posts, tables, feed, gen, pub, man,
                   gen_queue, pub_queue>>

(***************************************************************************)
(* generate_post_manual (api/endpoints.py).                                *)
(***************************************************************************)
IdleMan == [pc |-> "idle", news_id |-> 0, existing_post |-> 0]

\* (variant: the query finds no row)
first_post_none(news_id) == 0

\* first(): the posts row of a news item, 0 for none
first_post(news_id) ==
    IF \E i \in 1..Len(posts) : posts[i].news_id = news_id
    THEN CHOOSE i \in 1..Len(posts) :
             /\ posts[i].news_id = news_id
             /\ \A j \in 1..(i - 1) : posts[j].news_id # news_id
    ELSE 0

\* GenerateResponse of a request that returns before the call of generate_posts
AlreadyGenerated(existing_post) ==
    [status_code |-> 200, success |-> TRUE, post_id |-> existing_post,
     generated_text |-> posts[existing_post].generated_text]

\* the finished request; `kept` says whether the state keeps its response
Responded(kept, response) ==
    IF kept
    THEN [pc |-> "idle", news_id |-> 0, existing_post |-> 0,
          response |-> response]
    ELSE man

\* The request up to the call of generate_posts: the two queries and the
\* early returns (404, text already generated).
ManualStartOf(kept) ==
    /\ man.pc = "idle"
    /\ \E news_id \in 1..(Len(news_items) + 1) :
         LET existing_post == first_post(news_id)
         IN  IF news_id > Len(news_items)
             THEN man' = Responded(kept, [status_code |-> 404])
             ELSE IF existing_post # 0 /\ truthy(posts[existing_post].generated_text)
             THEN man' = Responded(kept, AlreadyGenerated(existing_post))
             ELSE man' = [pc |-> "generate", news_id |-> news_id,
                          existing_post |-> existing_post]
    /\ UNCHANGED <<news_items, posts, tables, feed, parse_queue, parse, gen, pub,
                   gen_queue, pub_queue, result, hist>>

ManualStart == ManualStartOf(FALSE)

\* The rest of the request: generate_posts, the write and the commit.
ManualFinish ==
    /\ man.pc = "generate"
    /\ \E o \in GenerateOutcomes :
         LET generated_text == generate_posts(news_items[man.news_id], o.text)
         IN  IF o.raised \/ ~truthy(generated_text)
             THEN UNCHANGED <<posts, hist>>
             ELSE IF man.existing_post # 0
             THEN /\ posts' = commit(posts,
                        set_columns(NoDirty, man.existing_post,
                            [generated_text |-> generated_text,
                             status |-> "generated"]))
                  /\ UNCHANGED hist
             ELSE /\ posts' = Append(posts,
                        [NewPost(man.news_id) EXCEPT
                            !.generated_text = generated_text,
                            !.status = "generated"])
                  /\ hist' = [hist EXCEPT !.calls = Append(@, NoCalls)]
    /\ man' = IdleMan
    /\ UNCHANGED <<news_items, tables, feed, parse_queue, parse, gen, pub,
                   gen_queue, pub_queue, result>>

(***************************************************************************)
(* Specifications.                                                         *)
(***************************************************************************)
NoHist == [calls |-> <<>>, parse_runs |-> 0, aborts |-> 0]

NoResult == [task |-> "none"]

InitStore ==
    /\ news_items = <<>>
    /\ posts = <<>>
    /\ keywords \in KeywordTables
    /\ source_table = sources
    /\ parse = [w \in Workers |-> IdleParse]
    /\ gen = IdleGen
    /\ pub = IdlePub
    /\ man = IdleMan
    /\ parse_queue = NoQueue
    /\ gen_queue = NoQueue
    /\ pub_queue = NoQueue
    /\ result = NoResult
    /\ hist = NoHist

\* the adapters may return anything on every call
Init ==
    /\ InitStore
    /\ feed = [s \in 1..Len(sources) |-> {}]

ParseNews(w) ==
    \/ ParseNewsStart(w)
    \/ ParseSource(w)
    \/ SaveNewsItem(w)
    \/ SaveCommit(w)
    \/ ParseNewsFinish(w)

GeneratePass == GenerateStart \/ GenerateUnit \/ GenerateFinish \/ GenerateAbort

PublishPass == PublishStart \/ PublishUnit \/ PublishFinish \/ PublishAbort

Manual == ManualStart \/ ManualFinish

\* The three passes, one task of each name at a time, with aborted executions.
Next == ParseNews(1) \/ GeneratePass \/ PublishPass

Spec == Init /\ [][Next]_vars

\* The three passes side by side, every execution run to its end.
NextPasses ==
    \/ ParseNews(1)
    \/ GenerateStart \/ GenerateUnit \/ GenerateFinish
    \/ PublishStart \/ PublishUnit \/ PublishFinish

SpecPasses == Init /\ [][NextPasses]_vars

\* The passes, run to their end, and the manual generation requests.
NextManual ==
    \/ ParseNews(1)
    \/ GenerateStart \/ GenerateUnit \/ GenerateFinish
    \/ PublishStart \/ PublishUnit \/ PublishFinish
    \/ Manual

SpecManual == Init /\ [][NextManual]_vars

\* The passes, run to their end, and the manual generation requests, while
\* the first source returns the admitted candidate and the candidate with the
\* upper-case title on every call.
InitRequests ==
    /\ InitStore
    /\ feed = [s \in 1..Len(sources) |->
                  IF s = 1
                  THEN {Returned(<<Candidate(Some("u1"), TitleAI),
                                   Candidate(Some("u2"), TitleCaps)>>)}
                  ELSE IF sources[s].enabled THEN {Returned(<<>>)} ELSE {}]

SpecRequests == InitRequests /\ [][NextManual]_vars

\* The same, every early response of a manual request kept in the state.
NextResponses ==
    \/ ParseNews(1)
    \/ GenerateStart \/ GenerateUnit \/ GenerateFinish
    \/ PublishStart \/ PublishUnit \/ PublishFinish
    \/ ManualStartOf(TRUE) \/ ManualFinish

SpecResponses == InitRequests /\ [][NextResponses]_vars

\* update_source (api/endpoints.py): the management interface sets columns of
\* one row of the table of sources and commits; here the column enabled.
UpdateSource ==
    /\ \E source_id \in 1..Len(source_table) :
       \E update_data \in [{"enabled"} -> BOOLEAN] :
           source_table' = [source_table EXCEPT
                               ![source_id].enabled = update_data["enabled"]]
    /\ UNCHANGED <<news_items, posts, keywords, feed, parse, gen, pub, man,
                   parse_queue, gen_queue, pub_queue, result, hist>>

\* parse_news run again and again, its session's Source objects kept in the
\* state, while the management interface enables and disables sources; every
\* adapter returns one candidate of its own on every call.
InitSources ==
    /\ InitStore
    /\ feed = [s \in 1..Len(sources) |->
                  IF s = 2
                  THEN {Returned(<<Candidate(Some("u2"), TitleRust)>>)}
                  ELSE {Returned(<<Candidate(Some("u1"), TitleAI)>>)}]

NextSources ==
    \/ ParseNewsStartOf(1, TRUE)
    \/ ParseSource(1)
    \/ SaveNewsItem(1)
    \/ SaveCommit(1)
    \/ ParseNewsFinish(1)
    \/ UpdateSource

SpecSources == InitSources /\ [][NextSources]_vars

\* Executions ended by an exception in the outer handler, and their retries,
\* while the first source returns the same two candidates on every call.
InitRetry ==
    /\ InitStore
    /\ feed = [s \in 1..Len(sources) |->
                  IF s = 1
                  THEN {Returned(<<Candidate(Some("u1"), TitleAI),
                                   Candidate(Some("u2"), TitleRust)>>)}
                  ELSE IF sources[s].enabled THEN {Returned(<<>>)} ELSE {}]

NextRetry ==
    \/ ParseNews(1) \/ ParseNewsRetry(1) \/ ParseNewsRaise(1)
    \/ GenerateStart \/ GenerateUnit \/ GenerateFinish \/ GenerateRaise
    \/ PublishStart \/ PublishUnit \/ PublishFinish \/ PublishRaise

SpecRetry == InitRetry /\ [][NextRetry]_vars

\* The passes with aborted executions, as the system itself triggers them:
\* the beat schedule sends parse_news for ever, a worker takes every queued
\* task and runs it on; no abort is ever bound to happen.
NextPickup == ParseNews(1) \/ GeneratePass \/ PublishPass

SpecPickup ==
    /\ InitRetry
    /\ [][NextPickup]_vars
    /\ WF_vars(ParseNews(1))
    /\ WF_vars(GenerateStart \/ GenerateUnit \/ GenerateFinish)
    /\ WF_vars(PublishStart \/ PublishUnit \/ PublishFinish)

\* Two parse_news tasks at the same time on two workers.
NextRace == ParseNews(1) \/ ParseNews(2)

SpecRace == Init /\ [][NextRace]_vars

\* parse_news run again and again while the adapter of every enabled source
\* returns the same result on every call.
InitRerun ==
    /\ InitStore
    /\ feed \in [1..Len(sources) -> {{}} \cup {{r} : r \in SiteResults}]
    /\ \A s \in 1..Len(sources) :
          IF sources[s].enabled
          THEN feed[s] # {} /\ feed[s] \subseteq AdapterResults(sources[s])
          ELSE feed[s] = {}

NextRerun == ParseNews(1)

SpecRerun == InitRerun /\ [][NextRerun]_vars

\* An ingest pass and the generate passes it starts, while the adapter of the
\* first source returns one entry of ClassifierInputs and the keywords table
\* is one of ClassifierKeywordTables.
InitClassify ==
    /\ news_items = <<>>
    /\ posts = <<>>
    /\ keywords \in ClassifierKeywordTables
    /\ source_table = sources
    /\ feed \in [1..Len(sources) -> {{}} \cup {{Returned(<<c>>)} : c \in ClassifierInputs}
                                      \cup {{Returned(<<>>)}}]
    /\ feed[1] \notin {{}, {Returned(<<>>)}}
    /\ \A s \in 2..Len(sources) :
          feed[s] = IF sources[s].enabled THEN {Returned(<<>>)} ELSE {}
    /\ parse = [w \in Workers |-> IdleParse]
    /\ gen = IdleGen
    /\ pub = IdlePub
    /\ man = IdleMan
    /\ parse_queue = NoQueue
    /\ gen_queue = NoQueue
    /\ pub_queue = NoQueue
    /\ result = NoResult
    /\ hist = NoHist

NextClassify ==
    ParseNews(1) \/ GenerateStart \/ GenerateUnit \/ GenerateFinish

SpecClassify == InitClassify /\ [][NextClassify]_vars

\* The three passes, every execution run to its end, while the publisher has
\* no client or no channel configured.
NextUnconfigured ==
    \/ ParseNews(1)
    \/ GenerateStart \/ GenerateUnit \/ GenerateFinish
    \/ PublishStart \/ PublishUnconfigured \/ PublishFinish

SpecUnconfigured == Init /\ [][NextUnconfigured]_vars

(***************************************************************************)
(* Properties.                                                             *)
(***************************************************************************)
AllowedTransitions ==
    { <<"new", "generated">>, <<"new", "failed">>,
      <<"generated", "published">>, <<"generated", "failed">> }

\* C1: in an execution of ingest, generate and publish passes (one task of
\* each name at a time) every change of the stored status of a posts row is
\* NEW->GENERATED, NEW->FAILED, GENERATED->PUBLISHED or GENERATED->FAILED,
\* and a row whose status is PUBLISHED or FAILED is never changed again.
C1_StatusTransitions ==
    [][\A p \in 1..Len(posts) :
          /\ posts'[p].status # posts[p].status
                => <<posts[p].status, posts'[p].status>> \in AllowedTransitions
          /\ posts[p].status \in {"published", "failed"} => posts'[p] = posts[p]
      ]_vars

\* a published row and a failed row are both stored
C1_Witness ==
    /\ \E p \in 1..Len(posts) : posts[p].status = "published"
    /\ \E p \in 1..Len(posts) : posts[p].status = "failed"

\* C2: a unit for which the Publishing Adapter returned success is stored as
\* PUBLISHED once the publish pass has ended, also when the pass was aborted,
\* and the adapter never returns success twice for the same unit.
C2_NoDoublePublish ==
    \A p \in 1..Len(posts) :
        /\ hist.calls[p].published <= 1
        /\ (pub.pc = "idle" /\ hist.calls[p].published >= 1)
              => posts[p].status = "published"

\* C3 as stated: when the generate pass turns to its next unit, every unit
\* it has processed already has its new status in the store.
C3_EveryOutcomeCommitted ==
    (gen.pc = "loop" /\ gen.i <= Len(gen.posts)) =>
        \A k \in 1..(gen.i - 1) : posts[gen.posts[k]].status # "new"

\* C3 amended: between two units of the generate pass, a unit that became
\* GENERATED (or FAILED in the exception handler), and every unit processed
\* before it, has its new status in the store; a unit rejected by admission
\* since then is FAILED only in the session, waiting for the next commit.
C3_CommittedUpToLastSuccess ==
    gen.pc = "loop" =>
        \A k \in 1..(gen.i - 1) :
            LET p == gen.posts[k]
            IN  IF \E j \in k..(gen.i - 1) : gen.done[j] \in {"generated", "raised"}
                THEN /\ p \notin DOMAIN gen.dirty
                     /\ posts[p].status # "new"
                     /\ gen.done[k] = "generated" => posts[p].generated_text # None
                ELSE /\ p \in DOMAIN gen.dirty
                     /\ gen.dirty[p].status = "failed"

\* a rejected unit was followed by a generated one in the running pass
C3_Witness ==
    /\ gen.pc = "loop"
    /\ \E k \in 1..(gen.i - 1) : \E j \in (k + 1)..(gen.i - 1) :
          gen.done[k] = "rejected" /\ gen.done[j] = "generated"

\* C5: in the generate pass a selected unit is handed to the Generation
\* Adapter if and only if its item is not classified as advertisement and
\* matches the interest filter; otherwise the pass sets it FAILED and does
\* not call the adapter for it.
C5_AdmissionGate ==
    [][(gen.pc = "loop" /\ gen'.pc = "loop" /\ gen'.i = gen.i + 1) =>
          LET p == gen.posts[gen.i]
              item == news_items[posts[p].news_id]
              text == lower(item.title \o <<" ">> \o item.summary)
              interest == keywords = {}
                          \/ \E word \in keywords : contains(text, lower(word))
              admitted == ~is_advertisement(item) /\ interest
              handed == hist'.calls[p].generate - hist.calls[p].generate
          IN  /\ handed = (IF admitted THEN 1 ELSE 0)
              /\ ~admitted => /\ p \in DOMAIN gen'.dirty
                              /\ gen'.dirty[p].status = "failed"
      ]_vars

\* one unit was rejected without a call and another was handed to the adapter
C5_Witness ==
    /\ \E p \in 1..Len(posts) :
          hist.calls[p].filter > 0 /\ hist.calls[p].generate = 0
    /\ \E p \in 1..Len(posts) : hist.calls[p].generate > 0

\* C10: a generate pass that finds no unit with status NEW returns
\* generated = 0, writes nothing to the store, runs neither the classifier
\* nor the Generation Adapter and schedules no publish pass.
C10_GenerateNoop ==
    [][(/\ gen.pc = "idle"
        /\ \E r \in 0..max_retries : gen_queue'[r] < gen_queue[r]
        /\ \A p \in 1..Len(posts) : posts[p].status # "new") =>
          /\ result' = [task |-> "generate_posts", generated |-> 0]
          /\ news_items' = news_items /\ posts' = posts
          /\ hist' = hist
          /\ gen' = gen
          /\ pub_queue' = pub_queue
      ]_vars

\* the last generate pass returned 0 although every unit had been generated
C10_Witness ==
    /\ result = [task |-> "generate_posts", generated |-> 0]
    /\ posts # <<>>
    /\ \A p \in 1..Len(posts) : posts[p].status \in {"generated", "published"}

\* C4: every stored item has exactly one posts row, under any interleaving
\* of the passes and the manual generation requests.
C4_OnePostPerItem ==
    \A n \in 1..Len(news_items) :
        Cardinality({p \in 1..Len(posts) : posts[p].news_id = n}) = 1

\* a manual request has generated the text of one of two stored items
C4_Witness ==
    /\ Len(news_items) = 2
    /\ \E p \in 1..Len(posts) :
          posts[p].status = "generated" /\ hist.calls[p].generate = 0

\* C6: the gate rejects a candidate exactly when the store (as the session
\* sees it) holds an item with the candidate's URL, if it has one, or with
\* the candidate's title; the check changes nothing in the store.
C6_DedupGate ==
    [][(/\ parse[1].pc = "save" /\ parse[1].batch # <<>>
        /\ ~parse[1].failed_flush
        /\ parse'[1].batch = Tail(parse[1].batch)) =>
          LET c == Head(parse[1].batch)
              seen == news_items \o parse[1].new_items
              present == \E i \in 1..Len(seen) :
                            \/ c.url # None /\ seen[i].url = c.url
                            \/ seen[i].title = c.title
              rejected == /\ parse'[1].new_items = parse[1].new_items
                          /\ ~parse'[1].failed_flush
          IN  /\ present <=> rejected
              /\ news_items' = news_items /\ posts' = posts
      ]_vars

\* the first candidate of a list of two has been rejected: its URL is stored
C6_Witness ==
    /\ parse[1].pc = "save"
    /\ parse[1].sources # <<>>
    /\ \E r \in feed[Head(parse[1].sources)] :
          /\ Len(r.items) = 2 /\ Len(parse[1].batch) = 1
          /\ r.items[1].url # None
          /\ \E i \in 1..Len(news_items) : news_items[i].url = r.items[1].url
    /\ parse[1].new_items = <<>>
    /\ ~parse[1].failed_flush

\* the (URL, title) pair of a stored item with URL, and the title of a stored
\* item without URL, belongs to no second stored item
UniqueKeys ==
    \A i \in 1..Len(news_items) : \A j \in 1..Len(news_items) :
        i # j =>
            IF news_items[i].url # None
            THEN ~(/\ news_items[i].url = news_items[j].url
                   /\ news_items[i].title = news_items[j].title)
            ELSE ~(/\ news_items[j].url = None
                   /\ news_items[i].title = news_items[j].title)

\* C7: after any sequence of ingest passes that do not overlap, no two stored
\* items have the same (URL, title) pair, and no two items without URL have
\* the same title.
C7_UniqueAfterIngest == parse[2].pc = "idle" => UniqueKeys

\* two items are stored and an ingest pass has run to its end
C7_Witness == Len(news_items) = 2 /\ hist.parse_runs = 1

\* C8: when two ingest operations race on the same candidate, one insert is
\* refused, so the store never holds two items with the same key.
C8_RaceKeepsKeysUnique ==
    \A i \in 1..Len(news_items) : \A j \in 1..Len(news_items) :
        (/\ i # j
         /\ news_items[i].url = news_items[j].url
         /\ news_items[i].title = news_items[j].title) => FALSE

\* C9: an ingest pass that follows a completed one over the same candidate
\* lists stores no item and no posts row, reports zero saved and schedules
\* no generate pass.
C9_RerunIdempotent ==
    [][hist.parse_runs >= 1 =>
          /\ news_items' = news_items
          /\ posts' = posts
          /\ gen_queue' = gen_queue
          /\ (parse[1].pc # "idle" /\ parse'[1].pc = "idle")
                => result'.saved = 0
      ]_vars

\* the posts rows of item n that the query by status returns, after the step
found_by_status(n, status) ==
    {p \in 1..Len(posts') : posts'[p].news_id = n /\ posts'[p].status = status}

\* C11: an item committed by the ingest path is found exactly once among the
\* units with status NEW; once the generate pass has generated its text it is
\* found exactly once among the GENERATED units and not among the NEW ones.
C11_RoundTrip ==
    [][/\ \A n \in (Len(news_items) + 1)..Len(news_items') :
             Cardinality(found_by_status(n, "new")) = 1
       /\ (/\ gen.pc = "loop" /\ gen'.pc = "loop"
           /\ Len(gen'.done) = Len(gen.done) + 1
           /\ gen'.done[Len(gen'.done)] = "generated") =>
             LET n == posts[gen.posts[gen.i]].news_id
             IN  /\ Cardinality(found_by_status(n, "generated")) = 1
                 /\ found_by_status(n, "new") = {}
      ]_vars

\* one ingested unit has been generated by the pass, another is still NEW
C11_Witness ==
    /\ \E p \in 1..Len(posts) :
          posts[p].status = "generated" /\ hist.calls[p].generate >= 1
    /\ \E p \in 1..Len(posts) : posts[p].status = "new"

\* C12: an ingest pass that ends after it stored at least one item sends
\* exactly one generate task, and a generate pass that ends after it moved at
\* least one unit to GENERATED sends exactly one publish task; otherwise
\* none is sent.
C12_Chaining ==
    [][/\ (parse[1].pc = "sources" /\ parse'[1].pc = "idle") =>
             gen_queue' = IF parse[1].created > 0
                          THEN [gen_queue EXCEPT ![0] = @ + 1] ELSE gen_queue
       /\ (gen.pc = "loop" /\ gen'.pc = "idle" /\ hist'.aborts = hist.aborts) =>
             pub_queue' = IF \E k \in 1..Len(gen.done) : gen.done[k] = "generated"
                          THEN [pub_queue EXCEPT ![0] = @ + 1] ELSE pub_queue
      ]_vars

\* a generate pass has ended with one unit generated and its publish task
\* waits in the queue
C12_Witness ==
    /\ result = [task |-> "generate_posts", generated |-> 1]
    /\ pub_queue[0] = 1
    /\ pub.pc = "idle"

\* what the claim expects of an execution with the given retry count that an
\* exception ends: one more message with the next count while fewer than 3
\* retries were made, no message and a failed run after the third retry
retried_up_to_3(queue, retries) ==
    IF retries < 3 THEN [queue EXCEPT ![retries + 1] = @ + 1] ELSE queue

\* C13: an execution of a pass that an exception ends in the outer handler is
\* followed by a retry while fewer than 3 retries were made; after the third
\* retry the run ends as failed with no further message, so no execution is
\* ever more than the fourth of its invocation.
C13_BoundedRetry ==
    [][/\ (parse[1].pc = "sources" /\ parse'[1].pc = "idle"
              /\ hist'.aborts = hist.aborts + 1) =>
             /\ parse_queue' = retried_up_to_3(parse_queue, parse[1].retries)
             /\ parse[1].retries >= 3 =>
                   result' = [task |-> "parse_news", status |-> "failure"]
       /\ (gen.pc = "loop" /\ gen'.pc = "idle"
              /\ hist'.aborts = hist.aborts + 1) =>
             /\ gen_queue' = retried_up_to_3(gen_queue, gen.retries)
             /\ gen.retries >= 3 =>
                   result' = [task |-> "generate_posts", status |-> "failure"]
       /\ (pub.pc = "loop" /\ pub'.pc = "idle"
              /\ hist'.aborts = hist.aborts + 1) =>
             /\ pub_queue' = retried_up_to_3(pub_queue, pub.retries)
             /\ pub.retries >= 3 =>
                   result' = [task |-> "publish_posts", status |-> "failure"]
       /\ parse'[1].retries + 1 <= 4
       /\ gen'.retries + 1 <= 4
       /\ pub'.retries + 1 <= 4
      ]_vars

\* the fourth execution of a publish pass has failed: no retry is queued
C13_Witness ==
    /\ result = [task |-> "publish_posts", status |-> "failure"]
    /\ \A r \in 0..max_retries : pub_queue[r] = 0
    /\ hist.aborts = 4

\* C14: when the adapter of an enabled source raises, the ingest pass goes on
\* with the remaining sources, the items stored before stay stored, nothing
\* is stored for the failing source, and the pass returns its result.
C14_SourceIsolation ==
    [][/\ (/\ parse[1].pc = "sources" /\ parse[1].sources # <<>>
           /\ feed[Head(parse[1].sources)] = {Raised}) =>
             /\ parse'[1].pc = "sources"
             /\ parse'[1].sources = Tail(parse[1].sources)
             /\ parse'[1].total_saved = parse[1].total_saved
             /\ news_items' = news_items /\ posts' = posts
       /\ \A i \in 1..Len(news_items') :
             \E s \in 1..Len(sources) : \E r \in feed[s] :
                 /\ ~r.raised
                 /\ \E k \in 1..Len(r.items) : r.items[k] = news_items'[i]
       /\ (parse[1].pc = "sources" /\ parse[1].sources = <<>>) =>
             result' = [task |-> "parse_news", saved |-> parse[1].created]
      ]_vars

\* the last source has raised after the pass stored an item of the first
\* source; the pass is about to return
C14_Witness ==
    /\ parse[1].pc = "sources" /\ parse[1].sources = <<>>
    /\ feed[2] = {Raised}
    /\ parse[1].total_saved >= 1
    /\ Len(news_items) >= 1

\* C15: in the publish pass a unit for which the Publishing Adapter returns
\* success is set PUBLISHED, a unit for which it returns failure or raises is
\* set FAILED, the loop goes on with the next unit in either case, and the
\* pass ends with every selected unit stored in the status it was set to.
C15_PublishOutcomes ==
    [][/\ (pub.pc = "loop" /\ pub'.pc = "loop" /\ pub' # pub) =>
             LET u == pub.posts[pub.i].id
                 success == hist'.calls[u].published = hist.calls[u].published + 1
             IN  /\ pub'.i = pub.i + 1
                 /\ u \in DOMAIN pub'.dirty
                 /\ pub'.dirty[u].status =
                        IF success THEN "published" ELSE "failed"
       /\ (pub.pc = "loop" /\ pub'.pc = "idle" /\ hist'.aborts = hist.aborts) =>
             /\ pub.i = Len(pub.posts) + 1
             /\ \A k \in 1..Len(pub.posts) :
                   LET u == pub.posts[k].id
                   IN  /\ u \in DOMAIN pub.dirty
                       /\ posts'[u].status = pub.dirty[u].status
                       /\ posts'[u].status \in {"published", "failed"}
      ]_vars

\* a publish pass over two units has ended: one published, one failed
C15_Witness ==
    /\ result = [task |-> "publish_posts", published |-> 1, failed |-> 1]
    /\ \E p \in 1..Len(posts) : posts[p].status = "published"
    /\ \E p \in 1..Len(posts) :
          posts[p].status = "failed" /\ posts[p].generated_text # None

\* C16: a manual generation request changes the stored status of a unit only
\* from NEW to GENERATED; a FAILED or PUBLISHED unit keeps its status.
C16_ManualTransitions ==
    [][(man.pc = "generate" /\ man'.pc = "idle") =>
          \A p \in 1..Len(posts) :
              posts'[p].status # posts[p].status =>
                  posts[p].status = "new" /\ posts'[p].status = "generated"
      ]_vars

\* the units the running generate pass selected, and those among them that
\* it has not committed yet (a write of the session is still to come)
gen_selected == {gen.posts[k] : k \in 1..Len(gen.posts)}
gen_pending == DOMAIN gen.dirty \cup {gen.posts[k] : k \in gen.i..Len(gen.posts)}

\* the units the running publish pass selected; its only commit is the last
\* step, so a write is still to come for each of them
pub_selected == {pub.posts[k].id : k \in 1..Len(pub.posts)}

\* C17 as stated: while a generate pass and a publish pass run side by side,
\* no stored unit that both passes selected is written, every status change
\* is an allowed transition, and the Publishing Adapter returns success at
\* most once per unit.
C17_NoWriteToSelectedUnit ==
    [][\A p \in 1..Len(posts) :
          /\ posts'[p] # posts[p] => ~(p \in gen_selected /\ p \in pub_selected)
          /\ posts'[p].status # posts[p].status
                => <<posts[p].status, posts'[p].status>> \in AllowedTransitions
          /\ hist'.calls[p].published <= 1
      ]_vars

\* C17 amended: a pass writes only units of its own selection for which its
\* write was still to come, no unit is at the same time awaiting a write of
\* the generate pass and selected by the publish pass (a unit the generate
\* pass has already committed as GENERATED may be selected and written by the
\* publish pass while the generate pass is still running), every status
\* change is an allowed transition, and the Publishing Adapter returns
\* success at most once per unit.
C17_DisjointPendingWrites ==
    [][/\ gen_pending \cap pub_selected = {}
       /\ \A p \in 1..Len(posts) :
             /\ posts'[p] # posts[p] =>
                   IF pub'.pc = "idle" /\ pub.pc = "loop"
                   THEN p \in pub_selected /\ p \notin gen_pending
                   ELSE p \in gen_pending /\ p \notin pub_selected
             /\ posts'[p].status # posts[p].status
                   => <<posts[p].status, posts'[p].status>> \in AllowedTransitions
             /\ hist'.calls[p].published <= 1
      ]_vars

\* the publish pass has set a unit that the generate pass, still running,
\* selected and committed; the ingest pass is running too
C17_Witness ==
    /\ gen.pc = "loop" /\ pub.pc = "loop" /\ parse[1].pc # "idle"
    /\ \E p \in DOMAIN pub.dirty : p \in gen_selected

\* C18: two executions of the same pass never run at the same time; here
\* for parse_news on a pool of two worker processes.
C18_SingleActiveRun == ~(parse[1].pc # "idle" /\ parse[2].pc # "idle")

\* ids the posts rows can have: no more rows than candidate URLs
UnitIds == 1..Cardinality({c.url : c \in Candidates})

\* the stored status of posts row p, "none" while the row does not exist
status_of(p) == IF p <= Len(posts) THEN posts[p].status ELSE "none"

\* C19: a unit that an aborted generate pass left NEW, or an aborted publish
\* pass left GENERATED, is eventually processed by a later pass of the same
\* stage, with nothing but the beat schedule, the chaining and the retries
\* to trigger it.
C19_PickUpAfterAbort ==
    \A p \in UnitIds :
        /\ [](( /\ hist.aborts > 0 /\ gen.pc = "idle"
                /\ status_of(p) = "new") => <>(status_of(p) # "new"))
        /\ [](( /\ hist.aborts > 0 /\ pub.pc = "idle"
                /\ status_of(p) = "generated") => <>(status_of(p) # "generated"))

\* the position of a posts row is its place in the order of creation
ascending(ids) == \A k \in 1..(Len(ids) - 1) : ids[k] < ids[k + 1]

\* C20: within one generate pass and within one publish pass the selected
\* units are processed in the order of their creation.
C20_CreationOrder ==
    /\ gen.pc = "loop" => ascending(gen.posts)
    /\ pub.pc = "loop" => ascending([k \in 1..Len(pub.posts) |-> pub.posts[k].id])

C22_PublishedAtOnlyWhenPublished ==
    \A p \in 1..Len(posts) :
        (posts[p].published_at # None) <=> (posts[p].status = "published")

\* the iteration of the generate pass that this step completes called
\* make_request
gen_called == gen.pc = "loop" /\ gen'.pc = "loop" /\ gen'.i = gen.i + 1
              /\ gen'.provider.called

\* C23: when the provider chain returns nothing for an admitted item (None or
\* an empty text), the fallback generator is used, and if it yields a text the
\* unit is stored as GENERATED with that text.
C23_FallbackGenerates ==
    [][(gen_called /\ ~gen'.provider.raised /\ ~truthy(gen'.provider.text)) =>
          LET p == gen.posts[gen.i]
              post_text == generate_fallback_post(news_items[posts[p].news_id])
          IN  post_text # <<>> =>
                 /\ posts'[p].status = "generated"
                 /\ posts'[p].generated_text = Some(post_text)
      ]_vars

\* make_request has returned None in the last iteration and the unit of that
\* iteration is stored with a text
C23_Witness ==
    /\ gen.pc = "loop" /\ gen.i > 1
    /\ gen.provider.called /\ gen.provider.text = None /\ ~gen.provider.raised
    /\ posts[gen.posts[gen.i - 1]].generated_text # None

\* the row of unit p as the session of the generate pass holds it after the
\* step: the stored row with the columns the session has set
gen_row(p) == commit(posts', gen'.dirty)[p]

\* C24 (as stated): when the generation of an admitted unit fails, which
\* includes that no provider is configured (make_request returns None), the
\* generate pass sets the unit FAILED and its generated text stays null.
C24_NoProviderSetsFailed ==
    [][(gen_called /\ (gen'.provider.raised \/ gen'.provider.text = None)) =>
          LET p == gen.posts[gen.i]
          IN  gen_row(p).status = "failed" /\ gen_row(p).generated_text = None
      ]_vars

\* C24 (amended): when the call of generate_posts raises, or returns no text
\* because neither the providers nor the fallback gave one, the generate pass
\* sets the unit FAILED and its generated text stays null; after an exception
\* the FAILED status is stored at once.
C24_FailureSetsFailed ==
    [][gen_called =>
          LET p == gen.posts[gen.i]
              news == news_items[posts[p].news_id]
          IN  /\ (gen'.provider.raised
                    \/ ~truthy(generate_posts(news, gen'.provider.text))) =>
                    /\ gen_row(p).status = "failed"
                    /\ gen_row(p).generated_text = None
                    /\ posts'[p].generated_text = None
              /\ gen'.provider.raised => posts'[p].status = "failed"
      ]_vars

\* the call of generate_posts has raised in the last iteration and the unit
\* of that iteration is stored FAILED without text
C24_Witness ==
    /\ gen.pc = "loop" /\ gen.i > 1
    /\ gen.provider.raised
    /\ posts[gen.posts[gen.i - 1]].status = "failed"
    /\ posts[gen.posts[gen.i - 1]].generated_text = None

RECURSIVE keyword_loop(_, _)
\* (variant: only the first row is compared)
keyword_loop_first(rows, search_text) ==
    rows # <<>> /\ contains(search_text, lower(Head(rows)))

\* "for keyword in keywords: if keyword.word.lower() in search_text: return
\* True", and False after the loop; rows is the list the query returned
keyword_loop(rows, search_text) ==
    IF rows = <<>> THEN FALSE
    ELSE IF contains(search_text, lower(Head(rows))) THEN TRUE
    ELSE keyword_loop(Tail(rows), search_text)

\* filter_news_by_keywords when session.query(Keyword).all() returns rows
filter_news_by_rows(rows, news_item) ==
    IF is_advertisement(news_item) THEN FALSE
    ELSE IF rows = <<>> THEN TRUE
    ELSE keyword_loop(rows,
             lower(news_item.title \o <<" ">> \o news_item.summary))

\* term occurs in text, letters compared without their case
occurs_in(term, text) ==
    \E i \in 0..(Len(text) - Len(term)) :
        \A j \in 1..Len(term) : LowerCh(text[i + j]) = LowerCh(term[j])

\* C25 (as stated): with an empty keywords table every item that is no
\* advertisement passes; with a non-empty table an item passes if and only if
\* "title summary" contains one of the keywords, letters compared without
\* their case, in whatever order the query returns the keywords.
C25_InterestFilter ==
    \A n \in 1..Len(news_items) : \A rows \in Orders(keywords) :
        LET item == news_items[n]
            text == item.title \o <<" ">> \o item.summary
            passes == filter_news_by_rows(rows, item)
        IN  /\ (keywords = {} /\ ~is_advertisement(item)) => passes
            /\ keywords # {} =>
                  (passes <=> \E term \in keywords : occurs_in(term, text))

\* C25 (amended): the same for the items that are no advertisement; an
\* advertisement never passes; and the verdict the generate pass uses is the
\* one of every order of the keywords.
C25_InterestFilterOfAdmitted ==
    \A n \in 1..Len(news_items) : \A rows \in Orders(keywords) :
        LET item == news_items[n]
            text == item.title \o <<" ">> \o item.summary
            passes == filter_news_by_rows(rows, item)
        IN  /\ passes = filter_news_by_keywords(keywords, item)
            /\ is_advertisement(item) => ~passes
            /\ (keywords = {} /\ ~is_advertisement(item)) => passes
            /\ (keywords # {} /\ ~is_advertisement(item)) =>
                  (passes <=> \E term \in keywords : occurs_in(term, text))

\* the generate pass has admitted an item whose title has the second of two
\* keywords in other letters than the table
C25_Witness ==
    /\ Cardinality(keywords) = 2
    /\ \E p \in 1..Len(posts) :
          /\ hist.calls[p].generate >= 1
          /\ news_items[posts[p].news_id].title = TitleRust

\* C26: every item whose title has fewer than 10 characters once leading and
\* trailing whitespace is removed is classified as an advertisement, whatever
\* its summary and author.
C26_ShortTitleIsAd ==
    \A n \in 1..Len(news_items) :
        Len(strip(news_items[n].title)) < 10 => is_advertisement(news_items[n])

\* the letters of a title are all upper-case / of both cases
all_upper_case(title) ==
    /\ \E i \in 1..Len(title) : IsUpperCh(title[i])
    /\ \A i \in 1..Len(title) : ~IsLowerCh(title[i])
mixed_case(title) ==
    /\ \E i \in 1..Len(title) : IsUpperCh(title[i])
    /\ \E i \in 1..Len(title) : IsLowerCh(title[i])

\* C27: an item whose title is entirely upper-case and longer than 5
\* characters is classified as an advertisement, and a title of mixed case
\* never triggers the upper-case rule.
C27_UpperCaseRule ==
    \A n \in 1..Len(news_items) :
        LET title == news_items[n].title
        IN  /\ (all_upper_case(title) /\ Len(title) > 5) =>
                  is_advertisement(news_items[n])
            /\ mixed_case(title) => ~caps_title(title)

\* the generate pass has rejected the item with the upper-case title of 13
\* characters while the keywords table is empty
C27_Witness ==
    /\ keywords = {}
    /\ \E p \in 1..Len(posts) :
          /\ news_items[posts[p].news_id].title = TitleCaps
          /\ hist.calls[p].filter >= 1 /\ hist.calls[p].generate = 0
          /\ posts[p].status = "failed"

\* the number of emoji characters a title starts with
leading_emoji(title) ==
    Cardinality({k \in 1..Len(title) : \A i \in 1..k : title[i] \in Emoji})

\* C28: an item whose title starts with at least 3 emoji characters followed
\* by text is classified as an advertisement; a title with 2 leading emoji,
\* and the same title with all but 2 of its leading emoji removed, does not
\* trigger the emoji rule.
C28_EmojiRule ==
    \A n \in 1..Len(news_items) :
        LET title == news_items[n].title
            lead == leading_emoji(title)
        IN  /\ (lead >= 3 /\ lead < Len(title)) =>
                  /\ is_advertisement(news_items[n])
                  /\ ~emoji_pattern(SubSeq(title, lead - 1, Len(title)))
            /\ lead = 2 => ~emoji_pattern(title)

\* the generate pass has rejected the item whose title starts with exactly 3
\* emoji while the keywords table is empty
C28_Witness ==
    /\ keywords = {}
    /\ \E p \in 1..Len(posts) :
          /\ news_items[posts[p].news_id].title = TitleEmoji3
          /\ hist.calls[p].filter >= 1 /\ hist.calls[p].generate = 0
          /\ posts[p].status = "failed"

\* C29: no step of an ingest, generate or publish pass removes a row of
\* news_items or posts, changes a row of news_items, moves a posts row to
\* another item or writes the keywords table (the sources table is a
\* constant of the model: the passes only read it); a posts row with status
\* FAILED and the row of its item stay as they are.
C29_Frame ==
    [][/\ Len(news_items') >= Len(news_items)
       /\ \A n \in 1..Len(news_items) : news_items'[n] = news_items[n]
       /\ Len(posts') >= Len(posts)
       /\ \A p \in 1..Len(posts) :
             /\ posts'[p].news_id = posts[p].news_id
             /\ posts[p].status = "failed" => posts'[p] = posts[p]
       /\ keywords' = keywords
      ]_vars

\* one unit is stored FAILED, another one PUBLISHED, and an execution of a
\* pass has been aborted
C29_Witness ==
    /\ \E p \in 1..Len(posts) : posts[p].status = "failed"
    /\ \E p \in 1..Len(posts) : posts[p].status = "published"
    /\ hist.aborts >= 1

\* C30: when the publisher has no credential configured, publish_post returns
\* False without a request to the network, and a publish pass that ends has
\* made no request and leaves every unit it selected stored as FAILED.
C30_UnconfiguredFails ==
    [][/\ pub'.requests = 0
       /\ (pub.pc = "loop" /\ pub'.pc = "idle") =>
             /\ result'.task = "publish_posts" /\ result'.published = 0
             /\ result'.failed = Len(pub.posts)
             /\ \A k \in 1..Len(pub.posts) :
                   posts'[pub.posts[k].id].status = "failed"
      ]_vars

\* a publish pass that had selected two units has ended, both are FAILED
C30_Witness ==
    /\ result.task = "publish_posts" /\ result.failed = 2
    /\ pub.pc = "idle"
    /\ Cardinality({p \in 1..Len(posts) :
           posts[p].status = "failed" /\ posts[p].generated_text # None}) = 2

\* C32: when save_news_items has gone through a list that holds a candidate
\* with a title, without URL, whose title no stored item has, the commit
\* leaves exactly one stored item with that title, and exactly one posts row
\* for it, with status NEW.
C32_UrlLessAdmitted ==
    [][(parse[1].pc = "save" /\ parse[1].batch = <<>>) =>
          \A r \in feed[Head(parse[1].sources)] : \A k \in 1..Len(r.items) :
              LET c == r.items[k]
                  stored == {n \in 1..Len(news_items') :
                                 news_items'[n].title = c.title}
              IN  (/\ c.url = None /\ c.title # <<>>
                   /\ \A i \in 1..Len(news_items) : news_items[i].title # c.title)
                  => /\ Cardinality(stored) = 1
                     /\ \A n \in stored :
                           Cardinality(found_by_status(n, "new")) = 1
      ]_vars

\* C34: in every state a posts row with status GENERATED or PUBLISHED has a
\* generated text that is not empty, and so has every row a running publish
\* pass has loaded: the pass skips none of them.
C34_GeneratedHasText ==
    /\ \A p \in 1..Len(posts) :
          posts[p].status \in {"generated", "published"} =>
              /\ posts[p].generated_text # None
              /\ posts[p].generated_text[1] # <<>>
    /\ \A k \in 1..Len(pub.posts) :
          /\ pub.posts[k].generated_text # None
          /\ pub.posts[k].generated_text[1] # <<>>

\* one unit got its text from the generate pass and is PUBLISHED, the other
\* got it from a manual request and is GENERATED
C34_Witness ==
    /\ \E p \in 1..Len(posts) :
          posts[p].status = "published" /\ hist.calls[p].generate >= 1
    /\ \E p \in 1..Len(posts) :
          posts[p].status = "generated" /\ hist.calls[p].generate = 0

\* C35: in every state no posts row whose item is_advertisement classifies as
\* an advertisement has status GENERATED or PUBLISHED.
C35_AdNeverGenerated ==
    \A p \in 1..Len(posts) :
        is_advertisement(news_items[posts[p].news_id]) =>
            posts[p].status \notin {"generated", "published"}

\* C36: for every item the generate pass has classified, the classifier of
\* the adapters (BaseParser.is_advertisement) and the classifier of the
\* pipeline (utils.is_advertisement) give the same verdict, so that an item
\* the hygiene filter of the adapters lets through is not rejected as an
\* advertisement by the generate pass.
C36_ClassifiersAgree ==
    \A p \in 1..Len(posts) :
        hist.calls[p].filter >= 1 =>
            LET news_item == news_items[posts[p].news_id]
            IN  /\ parser_is_advertisement(news_item)
                      = is_advertisement(news_item)
                /\ ~should_skip_item(news_item, 10) =>
                      ~is_advertisement(news_item)

\* two candidates have the same URL or the same title
same_key(a, b) == (truthy_url(a.url) /\ a.url = b.url) \/ a.title = b.title

\* C37: when one adapter result holds two candidates with the same URL or the
\* same title, neither of them stored before, save_news_items stores exactly
\* one item and one posts row for them and counts one saved item.
C37_DuplicatesInBatch ==
    [][(parse[1].pc = "save" /\ parse'[1].pc = "sources") =>
          \A r \in feed[Head(parse[1].sources)] :
              (/\ Len(r.items) = 2
               /\ same_key(r.items[1], r.items[2])
               /\ \A k \in 1..2 :
                     ~check_duplicate(news_items, r.items[k].url, r.items[k].title))
              => /\ Len(news_items') = Len(news_items) + 1
                 /\ Len(posts') = Len(posts) + 1
                 /\ parse'[1].total_saved = parse[1].total_saved + 1
      ]_vars

\* C38: every step of an ingest pass raises its count of saved items by the
\* number of rows it durably adds to news_items and to posts, so a source
\* whose batch is rolled back adds 0; the pass returns that count as 'saved',
\* and a pass that stored nothing sends no generate task.
C38_SavedIsCommitted ==
    [][/\ parse'[1].pc # "idle" =>
             LET before == IF parse[1].pc = "idle" THEN 0
                           ELSE parse[1].total_saved
             IN  /\ Len(news_items') - Len(news_items)
                        = parse'[1].total_saved - before
                 /\ Len(posts') - Len(posts) = parse'[1].total_saved - before
       /\ (parse[1].pc = "sources" /\ parse'[1].pc = "idle") =>
             /\ news_items' = news_items /\ posts' = posts
             /\ result'.task = "parse_news"
             /\ result'.saved = parse[1].total_saved
             /\ result'.saved = parse[1].created
             /\ parse[1].created = 0 => gen_queue' = gen_queue
      ]_vars

\* a pass has returned saved = 1: the batch of its first source, a candidate
\* with URL followed by one without, was rolled back, and its second source
\* stored one item
C38_Witness ==
    /\ parse[1].pc = "idle" /\ hist.parse_runs = 1
    /\ result.task = "parse_news" /\ result.saved = 1
    /\ Len(news_items) = 1
    /\ feed[1] = {Returned(<<Candidate(Some("u2"), TitleRust),
                            Candidate(None, TitleAI)>>)}

\* C39: a manual request for an item whose posts row has a non-empty text
\* never reaches the call of the generator; a request that returns "already
\* generated" returns the stored text of that row, and no request changes a
\* row, the history of calls or the items before the generator is called.
C39_ManualIdempotent ==
    [][(man.pc = "idle" /\ man' # man) =>
          /\ posts' = posts /\ news_items' = news_items /\ hist' = hist
          /\ man'.pc = "generate" =>
                \A p \in 1..Len(posts) :
                    posts[p].news_id = man'.news_id =>
                        \/ posts[p].generated_text = None
                        \/ posts[p].generated_text[1] = <<>>
          /\ (man'.pc = "idle" /\ man'.response.status_code = 200) =>
                LET post == posts'[man'.response.post_id]
                IN  /\ man'.response.generated_text = post.generated_text
                    /\ post.generated_text # None
                    /\ post.generated_text[1] # <<>>
      ]_vars

\* a request for a published unit has returned the text of that unit
C39_Witness ==
    /\ man.pc = "idle" /\ "response" \in DOMAIN man
    /\ man.response.status_code = 200
    /\ posts[man.response.post_id].status = "published"
    /\ man.response.generated_text = posts[man.response.post_id].generated_text

\* C33: whenever a commit of a pass or of a manual request changes the stored
\* status of a unit, the status stored just before is the one the writer
\* selected the unit by: NEW for the generate pass, GENERATED for the publish
\* pass, a row without text (NEW) for the manual request.
C33_WriteKeepsSelection ==
    [][\A p \in 1..Len(posts) :
          posts'[p].status # posts[p].status =>
              /\ gen' # gen => posts[p].status = "new"
              /\ pub' # pub => posts[p].status = "generated"
              /\ man' # man => /\ posts[p].status = "new"
                               /\ ~truthy(posts[p].generated_text)
      ]_vars

\* C31: when an ingest pass ends, the sources whose adapter it has called are
\* exactly the sources its initial query returned (the rows with enabled =
\* true at that moment) that have an adapter, whatever the management
\* interface has enabled or disabled since.
C31_SourcesFixedAtStart ==
    [][(parse[1].pc = "sources" /\ parse[1].sources = <<>>
            /\ parse'[1].pc = "idle") =>
          LET objects == parse[1].objects
              selected == {s \in 1..Len(objects.loaded) :
                              objects.loaded[s].enabled}
          IN  /\ objects.invoked \subseteq selected
              /\ objects.invoked =
                     {s \in selected :
                         objects.loaded[s].type = "site" =>
                             has_parser(objects.loaded[s])}
      ]_vars

====
